---- MODULE Spec2Model ----
(***************************************************************************)
(* The flint tokenizer (src/cxx/Tokenizer.cpp) as a state machine.         *)
(*                                                                         *)
(* A character is a one-character string; characters that have no         *)
(* convenient TLA+ spelling carry a name ("NUL", "NL", ...).  The source   *)
(* buffer is the sequence input, whose last element is the terminating     *)
(* NUL that tokenize() includes in its StringPiece.  The cursor pc is the  *)
(* number of characters already cut off the front of the StringPiece, so   *)
(* pc[i] of the source is input[pc + i + 1] and pc.size() is               *)
(* Len(input) - pc.                                                        *)
(*                                                                         *)
(* One action is one pass through the while(1)/switch of tokenize(), one   *)
(* action per case label group.                                            *)
(*                                                                         *)
(* Reads beyond the StringPiece (pc[i] with i >= pc.size()) are undefined  *)
(* behaviour.  A pass therefore runs in an environment e: e.nd tells       *)
(* whether the build defines NDEBUG (assert and folly's debug checks       *)
(* compiled out), and e.beyond is the readable memory that happens to      *)
(* follow the buffer; a read beyond that is a fault.                       *)
(***************************************************************************)
EXTENDS Integers, Sequences, FiniteSets, TLC

VARIABLES input, pc, line, preTokenPtr, preTokenLen, output, status, error, oob

vars == <<input, pc, line, preTokenPtr, preTokenLen, output, status, error, oob>>

----------------------------------------------------------------------------
(* Characters *)

NUL == "NUL"
NL  == "NL"
CR  == "CR"
TAB == "TAB"
FF  == "FF"
BSL == "BSL"
DQ  == "DQ"
SQ  == "SQ"
HI  == "HI"
BQ  == "BQ"

\* Outcomes of a read that yields no character.
ABORT == "ABORT"
SEGV  == "SEGV"

Crash == {ABORT, SEGV}

Digits == {"0", "1", "2", "3", "4", "5", "6", "7", "8", "9"}

Lower == {"a", "b", "c", "d", "e", "f", "g", "h", "i", "j", "k", "l", "m",
          "n", "o", "p", "q", "r", "s", "t", "u", "v", "w", "x", "y", "z"}

Upper == {"A", "B", "C", "D", "E", "F", "G", "H", "I", "J", "K", "L", "M",
          "N", "O", "P", "Q", "R", "S", "T", "U", "V", "W", "X", "Y", "Z"}

isdigit(c) == c \in Digits

isalpha(c) == c \in Lower \cup Upper

isalnum(c) == isalpha(c) \/ isdigit(c)

\* NUL, TAB, NL and CR are control characters too, but the switch handles
\* them before the default label; FF stands for the remaining ones.
iscntrl(c) == c \in {NUL, TAB, NL, CR, FF}

----------------------------------------------------------------------------
(* Bounds *)

\* Number of pieces an input is assembled from.
MaxPieces == 3

\* Number of readable characters after the buffer.
MaxBeyond == 1

\* Number of passes that may append a token without advancing the cursor.
MaxStall == 2

\* size_t arithmetic wraps; the width is reduced to what TLC's integers hold.
\* npos + k wraps to k - 1 at every width.
SizeMod == 65536

npos == SizeMod - 1

----------------------------------------------------------------------------
(* Results of the munchers *)

\* n characters eaten, line counter ln afterwards; past: some index at or
\* beyond pc.size() was used.
Ok(n, ln, past) == [st |-> "ok", err |-> "none", n |-> n, line |-> ln, oob |-> past]

Fail(err, ln, past) == [st |-> "fail", err |-> err, n |-> 0, line |-> ln, oob |-> past]

CrashErr(c) == IF c = ABORT THEN "AssertFailed" ELSE "Segfault"

\* pc[i] for the StringPiece that starts at offset p of a buffer of n
\* characters, followed in memory by whatever mem holds after them.
Rd(mem, n, p, i, nd) ==
  IF i < n - p THEN mem[p + i + 1]
  ELSE IF ~nd THEN ABORT
  ELSE IF p + i + 1 <= Len(mem) THEN mem[p + i + 1]
  ELSE SEGV

\* munchChars: sz is pc.size().  subpiece(0, howMany) clamps, advance throws.
munchChars(sz, howMany, ln, nd, past) ==
  IF howMany > sz
  THEN Fail(IF nd THEN "OutOfRange" ELSE "AssertFailed", ln, past)
  ELSE Ok(howMany, ln, past)

IsIdentChar(c) == isalnum(c) \/ c \in {"_", "$", "@"}

RECURSIVE IdentLoop(_, _, _, _, _, _)
IdentLoop(mem, n, p, ln, nd, i) ==
  LET c == Rd(mem, n, p, i, nd)
      past == i >= n - p
  IN IF c \in Crash THEN Fail(CrashErr(c), ln, past)
     ELSE IF ~IsIdentChar(c)
          THEN IF i > 0 THEN munchChars(n - p, i, ln, nd, past)
               ELSE Fail("InvalidIdentifier", ln, past)
          ELSE IdentLoop(mem, n, p, ln, nd, i + 1)

munchIdentifier(mem, n, p, ln, nd) == IdentLoop(mem, n, p, ln, nd, 0)

RECURSIVE CommentLoop(_, _, _, _, _, _)
CommentLoop(mem, n, p, ln, nd, i) ==
  LET c == Rd(mem, n, p, i, nd)
      past == i >= n - p
  IN IF c \in Crash THEN Fail(CrashErr(c), ln, past)
     ELSE IF c = NL THEN CommentLoop(mem, n, p, ln + 1, nd, i + 1)
     ELSE IF c = "*"
          THEN LET d == Rd(mem, n, p, i + 1, nd)
                   past1 == i + 1 >= n - p
               IN IF d \in Crash THEN Fail(CrashErr(d), ln, past1)
                  ELSE IF d = "/" THEN munchChars(n - p, i + 2, ln, nd, past1)
                  ELSE CommentLoop(mem, n, p, ln, nd, i + 1)
     ELSE IF c = NUL THEN Fail("UnterminatedComment", ln, past)
     ELSE CommentLoop(mem, n, p, ln, nd, i + 1)

munchComment(mem, n, p, ln, nd) == CommentLoop(mem, n, p, ln, nd, 2)

\* The loop of munchSingleLineComment without the look at pc[i - 1].
RECURSIVE LineCommentLoopNoContinuation(_, _, _, _, _, _)
LineCommentLoopNoContinuation(mem, n, p, ln, nd, i) ==
  LET c == Rd(mem, n, p, i, nd)
      past == i >= n - p
  IN IF c \in Crash THEN Fail(CrashErr(c), ln, past)
     ELSE IF c = NL THEN munchChars(n - p, i + 1, ln + 1, nd, past)
     ELSE IF c = NUL THEN munchChars(n - p, i, ln, nd, past)
     ELSE LineCommentLoopNoContinuation(mem, n, p, ln, nd, i + 1)

RECURSIVE LineCommentLoop(_, _, _, _, _, _)
LineCommentLoop(mem, n, p, ln, nd, i) ==
  LET c == Rd(mem, n, p, i, nd)
      past == i >= n - p
  IN IF c \in Crash THEN Fail(CrashErr(c), ln, past)
     ELSE IF c = NL
          THEN IF i > 0 /\ Rd(mem, n, p, i - 1, nd) = BSL
               THEN LineCommentLoop(mem, n, p, ln + 1, nd, i + 1)
               ELSE munchChars(n - p, i + 1, ln + 1, nd, past)
     ELSE IF c = NUL THEN munchChars(n - p, i, ln, nd, past)
     ELSE LineCommentLoop(mem, n, p, ln, nd, i + 1)

munchSingleLineComment(mem, n, p, ln, nd) == LineCommentLoop(mem, n, p, ln, nd, 2)

HexLetters == {"A", "a", "B", "b", "C", "c", "D", "d", "E", "e", "F", "f"}

SuffixLetters == {"F", "f", "L", "l", "U", "u"}

ExpLetters == {"E", "e", "P", "p"}

\* The loop of munchNumber with a sign that always ends the number.
RECURSIVE NumberLoopSignEnds(_, _, _, _, _, _, _)
NumberLoopSignEnds(mem, n, p, ln, nd, i, fl) ==
  LET c == Rd(mem, n, p, i, nd)
      past == i >= n - p
      next(g) == NumberLoopSignEnds(mem, n, p, ln, nd, i + 1, g)
  IN IF c \in Crash THEN Fail(CrashErr(c), ln, past)
     ELSE IF c = "." /\ ~fl.sawDot /\ ~fl.sawExp /\ ~fl.sawSuffix
          THEN next([fl EXCEPT !.sawDot = TRUE])
     ELSE IF isdigit(c) THEN next(fl)
     ELSE IF fl.sawX /\ ~fl.sawExp /\ c \in HexLetters THEN next(fl)
     ELSE IF c \in {"+", "-"}
          THEN IF i > 0 THEN munchChars(n - p, i, ln, nd, past) ELSE next(fl)
     ELSE IF ~fl.sawExp /\ ~fl.sawSuffix /\ ~fl.sawX /\ c \in {"e", "E"}
          THEN next([fl EXCEPT !.sawExp = TRUE])
     ELSE IF fl.sawX /\ ~fl.sawExp /\ ~fl.sawSuffix /\ c \in {"p", "P"}
          THEN next([fl EXCEPT !.sawExp = TRUE])
     ELSE IF c \in {"x", "X"} /\ i = 1 /\ Rd(mem, n, p, 0, nd) = "0"
          THEN next([fl EXCEPT !.sawX = TRUE])
     ELSE IF c \in SuffixLetters THEN next([fl EXCEPT !.sawSuffix = TRUE])
     ELSE IF i > 0 THEN munchChars(n - p, i, ln, nd, past)
     ELSE Fail("InvalidNumber", ln, past)

\* fl holds the four flags of munchNumber.
RECURSIVE NumberLoop(_, _, _, _, _, _, _)
NumberLoop(mem, n, p, ln, nd, i, fl) ==
  LET c == Rd(mem, n, p, i, nd)
      past == i >= n - p
      next(g) == NumberLoop(mem, n, p, ln, nd, i + 1, g)
  IN IF c \in Crash THEN Fail(CrashErr(c), ln, past)
     ELSE IF c = "." /\ ~fl.sawDot /\ ~fl.sawExp /\ ~fl.sawSuffix
          THEN next([fl EXCEPT !.sawDot = TRUE])
     ELSE IF isdigit(c) THEN next(fl)
     ELSE IF fl.sawX /\ ~fl.sawExp /\ c \in HexLetters THEN next(fl)
     ELSE IF c \in {"+", "-"}
          THEN IF i > 0 /\ Rd(mem, n, p, i - 1, nd) \notin ExpLetters
               THEN munchChars(n - p, i, ln, nd, past)
               ELSE next(fl)
     ELSE IF ~fl.sawExp /\ ~fl.sawSuffix /\ ~fl.sawX /\ c \in {"e", "E"}
          THEN next([fl EXCEPT !.sawExp = TRUE])
     ELSE IF fl.sawX /\ ~fl.sawExp /\ ~fl.sawSuffix /\ c \in {"p", "P"}
          THEN next([fl EXCEPT !.sawExp = TRUE])
     ELSE IF c \in {"x", "X"} /\ i = 1 /\ Rd(mem, n, p, 0, nd) = "0"
          THEN next([fl EXCEPT !.sawX = TRUE])
     ELSE IF c \in SuffixLetters THEN next([fl EXCEPT !.sawSuffix = TRUE])
     ELSE IF i > 0 THEN munchChars(n - p, i, ln, nd, past)
     ELSE Fail("InvalidNumber", ln, past)

munchNumber(mem, n, p, ln, nd) ==
  NumberLoop(mem, n, p, ln, nd, 0,
             [sawDot |-> FALSE, sawExp |-> FALSE, sawX |-> FALSE, sawSuffix |-> FALSE])

\* The loop shared by munchCharLiteral and munchString: q is the delimiter,
\* err the message of the ENFORCE.
RECURSIVE LiteralLoop(_, _, _, _, _, _, _, _)
LiteralLoop(mem, n, p, ln, nd, i, q, err) ==
  LET c == Rd(mem, n, p, i, nd)
      past == i >= n - p
  IN IF c \in Crash THEN Fail(CrashErr(c), ln, past)
     ELSE IF c = q THEN munchChars(n - p, i + 1, ln, nd, past)
     ELSE IF c = BSL
          THEN LET d == Rd(mem, n, p, i + 1, nd)
                   past1 == i + 1 >= n - p
               IN IF d \in Crash THEN Fail(CrashErr(d), ln, past1)
                  ELSE LiteralLoop(mem, n, p, IF d = NL THEN ln + 1 ELSE ln,
                                   nd, i + 2, q, err)
     ELSE IF c = NUL THEN Fail(err, ln, past)
     ELSE LiteralLoop(mem, n, p, ln, nd, i + 1, q, err)

munchCharLiteral(mem, n, p, ln, nd) ==
  LiteralLoop(mem, n, p, ln, nd, 1, SQ, "UnterminatedChar")

munchString(mem, n, p, ln, nd) ==
  LiteralLoop(mem, n, p, ln, nd, 1, DQ, "UnterminatedString")

RECURSIVE SpacesLoop(_, _, _, _, _, _)
SpacesLoop(mem, n, p, ln, nd, i) ==
  LET c == Rd(mem, n, p, i, nd)
      past == i >= n - p
  IN IF c \in Crash THEN Fail(CrashErr(c), ln, past)
     ELSE IF c \in {" ", TAB} THEN SpacesLoop(mem, n, p, ln, nd, i + 1)
     ELSE IF i > n - p THEN Fail("OutOfRange", ln, past)
     ELSE Ok(i, ln, past)

munchSpaces(mem, n, p, ln, nd) == SpacesLoop(mem, n, p, ln, nd, 0)

----------------------------------------------------------------------------
(* Tables of Tokenizer.h *)

\* CPPLINT_FORALL_ONE_CHAR_TOKENS: <<c0, t0>>
OneCharTokens ==
  {<<";", "TK_SEMICOLON">>, <<",", "TK_COMMA">>,
   <<"(", "TK_LPAREN">>, <<")", "TK_RPAREN">>}

\* CPPLINT_FORALL_ONE_OR_TWO_CHAR_TOKENS: <<c1, t1, c2, t2>>
OneOrTwoCharTokens ==
  {<<"=", "TK_ASSIGN", "=", "TK_EQUAL_TO">>,
   <<"!", "TK_NOT", "=", "TK_NOT_EQUAL">>}

\* CPPLINT_FORALL_ONE_OR_TWO_CHAR_TOKENS2: <<c1, t1, c2, t2, c3, t3>>
OneOrTwoCharTokens2 ==
  {<<"+", "TK_PLUS", "+", "TK_INCREMENT", "=", "TK_PLUS_ASSIGN">>,
   <<"&", "TK_AMPERSAND", "=", "TK_AND_ASSIGN", "&", "TK_LOGICAL_AND">>}

\* CPPLINT_FORALL_ONE_TO_THREE_CHAR_TOKENS: <<c1, t1, c2, t2, c3, t3, c4, t4>>
OneToThreeCharTokens ==
  {<<"<", "TK_LESS", "=", "TK_LESS_EQUAL", "<", "TK_LSHIFT", "=", "TK_LSHIFT_ASSIGN">>,
   <<">", "TK_GREATER", "=", "TK_GREATER_EQUAL", ">", "TK_RSHIFT", "=", "TK_RSHIFT_ASSIGN">>}

\* CPPLINT_FORALL_KEYWORDS: <<spelling, kind>>
Keywords ==
  {<<(<<"i", "n", "t">>), "TK_INT">>,
   <<(<<"i", "f">>), "TK_IF">>,
   <<(<<"v", "i", "r", "t", "u", "a", "l">>), "TK_VIRTUAL">>}

Entry(table, c) == CHOOSE row \in table : row[1] = c

Firsts(table) == {row[1] : row \in table}

\* The characters that have a case label of their own.
SwitchChars ==
  Firsts(OneCharTokens) \cup Firsts(OneOrTwoCharTokens)
    \cup Firsts(OneOrTwoCharTokens2) \cup Firsts(OneToThreeCharTokens)
    \cup {"/", BSL, NL, CR, "-", " ", TAB, NUL, BQ, ".", SQ, DQ, "#"} \cup Digits

----------------------------------------------------------------------------
(* The state of one tokenize() call *)

GarbageChars == {NUL, DQ}

Beyond == UNION {[1..k -> GarbageChars] : k \in 0..MaxBeyond}

Envs == {[nd |-> b, beyond |-> g] : b \in BOOLEAN, g \in Beyond}

Mem(e) == input \o e.beyond

Size == Len(input) - pc

\* pc[k]
Look(e, k) == Rd(Mem(e), Len(input), pc, k, e.nd)

Running == status = "running" /\ Len(output) < Len(input) + MaxStall

Token(t, len, ln) ==
  [type |-> t, ptr |-> pc, len |-> len, line |-> ln,
   prePtr |-> preTokenPtr, preLen |-> preTokenLen]

\* An exception (or an abort) leaves tokenize(); output is the caller's vector.
Throw(err, ln, past) ==
  /\ status' = "failed"
  /\ error' = err
  /\ line' = ln
  /\ oob' = (oob \/ past)
  /\ UNCHANGED <<input, pc, preTokenPtr, preTokenLen, output>>

\* INSERT_TOKEN
InsertToken(e, t, tokenLen) ==
  LET r == munchChars(Size, tokenLen, line, e.nd, Size = 0)
  IN IF r.st = "fail" THEN Throw(r.err, r.line, r.oob)
     ELSE /\ output' = Append(output, Token(t, r.n, line))
          /\ pc' = pc + r.n
          /\ preTokenPtr' = pc + r.n
          /\ preTokenLen' = 0
          /\ oob' = (oob \/ r.oob)
          /\ UNCHANGED <<input, line, status, error>>

\* output.push_back of the span a muncher returned; line is read after the
\* muncher has run, and the trivia accumulator is left alone.
PushMunched(t, r) ==
  IF r.st = "fail" THEN Throw(r.err, r.line, r.oob)
  ELSE /\ output' = Append(output, Token(t, r.n, r.line))
       /\ pc' = pc + r.n
       /\ line' = r.line
       /\ oob' = (oob \/ r.oob)
       /\ UNCHANGED <<input, preTokenPtr, preTokenLen, status, error>>

\* preTokenLen += muncher(pc, line).size()
FoldTrivia(r) ==
  IF r.st = "fail" THEN Throw(r.err, r.line, r.oob)
  ELSE /\ pc' = pc + r.n
       /\ preTokenLen' = preTokenLen + r.n
       /\ line' = r.line
       /\ oob' = (oob \/ r.oob)
       /\ UNCHANGED <<input, preTokenPtr, output, status, error>>

\* pc.advance(k)
Advance(e, k, ln) ==
  IF k > Size THEN Fail("OutOfRange", ln, TRUE) ELSE Ok(k, ln, Size = 0)

\* A lookahead that yields no character ends the call.
LookCrash(e, ks) == \E k \in ks : Look(e, k) \in Crash

ThrowCrash(e, ks) ==
  LET k == CHOOSE j \in ks : Look(e, j) \in Crash /\ \A h \in ks : Look(e, h) \in Crash => j <= h
  IN Throw(CrashErr(Look(e, k)), line, TRUE)

----------------------------------------------------------------------------
(* The '#' case *)

\* pc1.startsWith(str) for the StringPiece pc1 that starts at offset p1
startsWith(p1, str) ==
  /\ Len(input) - p1 >= Len(str)
  /\ SubSeq(input, p1 + 1, p1 + Len(str)) = str

\* A search that answers the position after the newline.
qfindPastNewline(p1) ==
  LET found == {k \in 0..(Len(input) - p1 - 1) : input[p1 + k + 1] = NL}
  IN IF found = {} THEN npos
     ELSE (CHOOSE k \in found : \A j \in found : k <= j) + 1

\* qfind(pc1, '\n')
qfind(p1) ==
  LET found == {k \in 0..(Len(input) - p1 - 1) : input[p1 + k + 1] = NL}
  IN IF found = {} THEN npos
     ELSE CHOOSE k \in found : \A j \in found : k <= j

\* The if-chain on pc1: the kind, what is added to tokenLen, and whether the
\* ENFORCE(tokenLen > 0) follows.
Directive(p1) ==
  IF startsWith(p1, <<"l", "i", "n", "e">>)
       THEN [t |-> "TK_HASHLINE", add |-> qfind(p1), enforce |-> FALSE]
  ELSE IF startsWith(p1, <<"w", "a", "r", "n", "i", "n", "g">>) \/ startsWith(p1, <<"e", "r", "r", "o", "r">>)
       THEN [t |-> "TK_ERROR", add |-> qfind(p1), enforce |-> TRUE]
  ELSE IF startsWith(p1, <<"i", "n", "c", "l", "u", "d", "e">>)
       THEN [t |-> "TK_INCLUDE", add |-> 7, enforce |-> FALSE]
  ELSE IF startsWith(p1, <<"i", "f", "d", "e", "f">>)
       THEN [t |-> "TK_IFDEF", add |-> 5, enforce |-> FALSE]
  ELSE IF startsWith(p1, <<"i", "f", "n", "d", "e", "f">>)
       THEN [t |-> "TK_IFNDEF", add |-> 6, enforce |-> FALSE]
  ELSE IF startsWith(p1, <<"i", "f">>)
       THEN [t |-> "TK_POUNDIF", add |-> 2, enforce |-> FALSE]
  ELSE IF startsWith(p1, <<"u", "n", "d", "e", "f">>)
       THEN [t |-> "TK_UNDEF", add |-> 5, enforce |-> FALSE]
  ELSE IF startsWith(p1, <<"e", "l", "s", "e">>)
       THEN [t |-> "TK_POUNDELSE", add |-> 4, enforce |-> FALSE]
  ELSE IF startsWith(p1, <<"e", "n", "d", "i", "f">>)
       THEN [t |-> "TK_ENDIF", add |-> 5, enforce |-> FALSE]
  ELSE IF startsWith(p1, <<"d", "e", "f", "i", "n", "e">>)
       THEN [t |-> "TK_DEFINE", add |-> 6, enforce |-> FALSE]
  ELSE IF startsWith(p1, <<"p", "r", "a", "g", "m", "a">>)
       THEN [t |-> "TK_PRAGMA", add |-> 6, enforce |-> FALSE]
  ELSE IF startsWith(p1, <<"#">>)
       THEN [t |-> "TK_DOUBLEPOUND", add |-> 2, enforce |-> FALSE]
  ELSE [t |-> "TK_POUND", add |-> 1, enforce |-> FALSE]

----------------------------------------------------------------------------
(* One pass of the driver loop, a case label group each *)

\* auto const c = pc.front() on an empty StringPiece that cannot be read
Front ==
  /\ Running
  /\ \E e \in Envs :
       /\ Look(e, 0) \in Crash
       /\ Throw(CrashErr(Look(e, 0)), line, TRUE)

OneCharToken ==
  /\ Running
  /\ \E e \in Envs :
       /\ Look(e, 0) \in Firsts(OneCharTokens)
       /\ InsertToken(e, Entry(OneCharTokens, Look(e, 0))[2], 1)

OneOrTwoCharToken ==
  /\ Running
  /\ \E e \in Envs :
       /\ Look(e, 0) \in Firsts(OneOrTwoCharTokens)
       /\ LET row == Entry(OneOrTwoCharTokens, Look(e, 0))
          IN IF LookCrash(e, {1}) THEN ThrowCrash(e, {1})
             ELSE IF Look(e, 1) = row[3] THEN InsertToken(e, row[4], 2)
             ELSE InsertToken(e, row[2], 1)

OneOrTwoCharToken2 ==
  /\ Running
  /\ \E e \in Envs :
       /\ Look(e, 0) \in Firsts(OneOrTwoCharTokens2)
       /\ LET row == Entry(OneOrTwoCharTokens2, Look(e, 0))
          IN IF LookCrash(e, {1}) THEN ThrowCrash(e, {1})
             ELSE IF Look(e, 1) = row[3] THEN InsertToken(e, row[4], 2)
             ELSE IF Look(e, 1) = row[5] THEN InsertToken(e, row[6], 2)
             ELSE InsertToken(e, row[2], 1)

OneToThreeCharToken ==
  /\ Running
  /\ \E e \in Envs :
       /\ Look(e, 0) \in Firsts(OneToThreeCharTokens)
       /\ LET row == Entry(OneToThreeCharTokens, Look(e, 0))
          IN IF LookCrash(e, {1}) THEN ThrowCrash(e, {1})
             ELSE IF Look(e, 1) = row[3] THEN InsertToken(e, row[4], 2)
             ELSE IF Look(e, 1) = row[5]
                  THEN IF LookCrash(e, {2}) THEN ThrowCrash(e, {2})
                       ELSE IF Look(e, 2) = row[7] THEN InsertToken(e, row[8], 3)
                       ELSE InsertToken(e, row[6], 2)
             ELSE InsertToken(e, row[2], 1)

Slash ==
  /\ Running
  /\ \E e \in Envs :
       /\ Look(e, 0) = "/"
       /\ IF LookCrash(e, {1}) THEN ThrowCrash(e, {1})
          ELSE IF Look(e, 1) = "*"
               THEN FoldTrivia(munchComment(Mem(e), Len(input), pc, line, e.nd))
          ELSE IF Look(e, 1) = "/"
               THEN FoldTrivia(munchSingleLineComment(Mem(e), Len(input), pc, line, e.nd))
          ELSE IF Look(e, 1) = "=" THEN InsertToken(e, "TK_DIVIDE_ASSIGN", 2)
          ELSE InsertToken(e, "TK_DIVIDE", 1)

Backslash ==
  /\ Running
  /\ \E e \in Envs :
       /\ Look(e, 0) = BSL
       /\ IF LookCrash(e, {1}) THEN ThrowCrash(e, {1})
          ELSE IF Look(e, 1) \notin {NL, CR}
               THEN Throw("MisplacedBackslash", line, FALSE)
          ELSE FoldTrivia(Advance(e, 2, line + 1))

Newline ==
  /\ Running
  /\ \E e \in Envs :
       /\ Look(e, 0) = NL
       /\ FoldTrivia(Advance(e, 1, line + 1))

CarriageReturn ==
  /\ Running
  /\ \E e \in Envs :
       /\ Look(e, 0) = CR
       /\ FoldTrivia(Advance(e, 1, line))

\* Minus without the look at pc[2].
MinusNoThird ==
  /\ Running
  /\ \E e \in Envs :
       /\ Look(e, 0) = "-"
       /\ IF LookCrash(e, {1}) THEN ThrowCrash(e, {1})
          ELSE IF Look(e, 1) = "-" THEN InsertToken(e, "TK_DECREMENT", 2)
          ELSE IF Look(e, 1) = "=" THEN InsertToken(e, "TK_MINUS_ASSIGN", 2)
          ELSE IF Look(e, 1) = ">" THEN InsertToken(e, "TK_ARROW", 2)
          ELSE InsertToken(e, "TK_MINUS", 1)

Minus ==
  /\ Running
  /\ \E e \in Envs :
       /\ Look(e, 0) = "-"
       /\ IF LookCrash(e, {1}) THEN ThrowCrash(e, {1})
          ELSE IF Look(e, 1) = "-" THEN InsertToken(e, "TK_DECREMENT", 2)
          ELSE IF Look(e, 1) = "=" THEN InsertToken(e, "TK_MINUS_ASSIGN", 2)
          ELSE IF Look(e, 1) = ">"
               THEN IF LookCrash(e, {2}) THEN ThrowCrash(e, {2})
                    ELSE IF Look(e, 2) = "*" THEN InsertToken(e, "TK_ARROW_STAR", 3)
                    ELSE InsertToken(e, "TK_ARROW", 2)
          ELSE InsertToken(e, "TK_MINUS", 1)

Whitespace ==
  /\ Running
  /\ \E e \in Envs :
       /\ Look(e, 0) \in {" ", TAB}
       /\ FoldTrivia(munchSpaces(Mem(e), Len(input), pc, line, e.nd))

EndOfInput ==
  /\ Running
  /\ \E e \in Envs :
       /\ Look(e, 0) = NUL
       /\ IF ~e.nd /\ Size # 1 THEN Throw("AssertFailed", line, Size = 0)
          ELSE /\ output' = Append(output, Token("TK_EOF", Size, line))
               /\ status' = "returned"
               /\ oob' = (oob \/ Size = 0)
               /\ UNCHANGED <<input, pc, line, preTokenPtr, preTokenLen, error>>

Verboten ==
  /\ Running
  /\ \E e \in Envs :
       /\ Look(e, 0) = BQ
       /\ Throw("InvalidCharacter", line, Size = 0)

Number ==
  /\ Running
  /\ \E e \in Envs :
       /\ Look(e, 0) \in Digits
       /\ PushMunched("TK_NUMBER", munchNumber(Mem(e), Len(input), pc, line, e.nd))

Dot ==
  /\ Running
  /\ \E e \in Envs :
       /\ Look(e, 0) = "."
       /\ IF LookCrash(e, {1}) THEN ThrowCrash(e, {1})
          ELSE IF isdigit(Look(e, 1))
               THEN PushMunched("TK_NUMBER", munchNumber(Mem(e), Len(input), pc, line, e.nd))
          ELSE IF Look(e, 1) = "*" THEN InsertToken(e, "TK_DOT_STAR", 2)
          ELSE IF Look(e, 1) = "."
               THEN IF LookCrash(e, {2}) THEN ThrowCrash(e, {2})
                    ELSE IF Look(e, 2) = "." THEN InsertToken(e, "TK_ELLIPSIS", 3)
                    ELSE InsertToken(e, "TK_DOT", 1)
          ELSE InsertToken(e, "TK_DOT", 1)

CharLiteral ==
  /\ Running
  /\ \E e \in Envs :
       /\ Look(e, 0) = SQ
       /\ PushMunched("TK_CHAR_LITERAL",
                      munchCharLiteral(Mem(e), Len(input), pc, line, e.nd))

StringLiteral ==
  /\ Running
  /\ \E e \in Envs :
       /\ Look(e, 0) = DQ
       /\ PushMunched("TK_STRING_LITERAL",
                      munchString(Mem(e), Len(input), pc, line, e.nd))

Hash ==
  /\ Running
  /\ \E e \in Envs :
       /\ Look(e, 0) = "#"
       /\ IF Size < 1 THEN Throw("OutOfRange", line, TRUE)
          ELSE LET sp == munchSpaces(Mem(e), Len(input), pc + 1, line, e.nd)
               IN IF sp.st = "fail" THEN Throw(sp.err, sp.line, sp.oob)
                  ELSE LET d == Directive(pc + 1 + sp.n)
                           tokenLen == (1 + sp.n + d.add) % SizeMod
                       IN IF d.enforce /\ ~(tokenLen > 0)
                          THEN Throw("UnterminatedDirective", line, sp.oob)
                          ELSE InsertToken(e, d.t, tokenLen)

\* A lookup that is content with a key that only starts the symbol.
KeywordKindPrefix(symbol) ==
  IF \E kw \in Keywords :
       Len(kw[1]) <= Len(symbol) /\ SubSeq(symbol, 1, Len(kw[1])) = kw[1]
  THEN (CHOOSE kw \in Keywords :
          Len(kw[1]) <= Len(symbol) /\ SubSeq(symbol, 1, Len(kw[1])) = kw[1])[2]
  ELSE "TK_IDENTIFIER"

KeywordKind(symbol) ==
  IF \E kw \in Keywords : kw[1] = symbol
  THEN (CHOOSE kw \in Keywords : kw[1] = symbol)[2]
  ELSE "TK_IDENTIFIER"

Default ==
  /\ Running
  /\ \E e \in Envs :
       LET c == Look(e, 0)
       IN /\ c \notin SwitchChars \cup Crash
          /\ IF iscntrl(c) THEN FoldTrivia(Advance(e, 1, line))
             ELSE IF isalpha(c) \/ c \in {"_", "$", "@"}
                  THEN LET r == munchIdentifier(Mem(e), Len(input), pc, line, e.nd)
                       IN PushMunched(KeywordKind(SubSeq(Mem(e), pc + 1, pc + r.n)), r)
             ELSE Throw("UnrecognizedCharacter", line, Size = 0)

----------------------------------------------------------------------------
(* Inputs *)

Pieces ==
  {<<"a">>, <<"1">>, <<";">>, <<" ">>, <<NL>>, <<CR>>, <<BSL>>, <<DQ>>, <<SQ>>,
   <<"/">>, <<"*">>, <<"#">>, <<BSL, NL>>, <<"l", "i", "n", "e">>, <<"e", "r", "r", "o", "r">>}

RECURSIVE Flatten(_)
Flatten(ps) == IF ps = <<>> THEN <<>> ELSE Head(ps) \o Flatten(Tail(ps))

PieceInputs ==
  {Flatten(ps) \o <<NUL>> : ps \in UNION {[1..k -> Pieces] : k \in 0..MaxPieces}}

\* One input for every case label group the pieces do not reach.
CoverageInputs ==
  {<<"=", "=", "=", NUL>>, <<"+", "=", "&", "&", "+", NUL>>,
   <<"<", "<", "=", "<", "=", "<", NUL>>, <<",", "(", ")", NUL>>,
   <<"-", ">", "*", "-", ">", "-", "-", "-", NUL>>, <<"-", "=", "/", "=", "1", NUL>>,
   <<"#", NUL>>, <<"#", "i", "f", "n", "d", "e", "f", " ", "#", "#", "a", NUL>>,
   <<".", ".", ".", ".", "*", ".", "5", ".", NUL>>, <<TAB, FF, HI, NUL>>, <<BQ, NUL>>,
   <<"v", "i", "r", "t", "u", "a", "l", " ", "_", "x", NUL>>,
   <<BSL, NL, CR, SQ, "a", SQ, DQ, "a", DQ, NL, NUL>>}

Inputs == PieceInputs \cup CoverageInputs

\* The state after the declarations of tokenize(), for an input of the set S.
InitWith(S) ==
  /\ input \in S
  /\ pc = 0
  /\ line = 1
  /\ preTokenPtr = 0
  /\ preTokenLen = 0
  /\ output = <<>>
  /\ status = "running"
  /\ error = "none"
  /\ oob = FALSE

Init == InitWith(Inputs)

\* Inputs for the line counter: newlines between tokens, in comments, in
\* literals and in continuations.
LinePieces ==
  {<<"a">>, <<";">>, <<" ">>, <<NL>>, <<CR>>, <<BSL>>, <<DQ>>, <<SQ>>,
   <<"/">>, <<"*">>, <<BSL, NL>>}

LineInputs ==
  {Flatten(ps) \o <<NUL>> : ps \in UNION {[1..k -> LinePieces] : k \in 0..MaxPieces}}

InitLines == InitWith(LineInputs \cup CoverageInputs)

Next ==
  \/ Front
  \/ OneCharToken
  \/ OneOrTwoCharToken
  \/ OneOrTwoCharToken2
  \/ OneToThreeCharToken
  \/ Slash
  \/ Backslash
  \/ Newline
  \/ CarriageReturn
  \/ Minus
  \/ Whitespace
  \/ EndOfInput
  \/ Verboten
  \/ Number
  \/ Dot
  \/ CharLiteral
  \/ StringLiteral
  \/ Hash
  \/ Default

Spec == Init /\ [][Next]_vars

SpecLines == InitLines /\ [][Next]_vars

\* Inputs for the operators.
OpPieces ==
  {<<"-">>, <<">">>, <<"*">>, <<"=">>, <<"<">>, <<".">>, <<"/">>, <<"1">>, <<"a">>}

OpInputs ==
  {Flatten(ps) \o <<NUL>> : ps \in UNION {[1..k -> OpPieces] : k \in 0..MaxPieces}}
    \cup {<<"-", ">", "*", "<", "<", "=", NUL>>}

InitOps == InitWith(OpInputs \cup CoverageInputs)

SpecOps == InitOps /\ [][Next]_vars

\* Inputs for identifiers and keywords.
WordPieces ==
  {<<"v", "i", "r", "t", "u", "a", "l">>, <<"l", "y">>, <<"i", "n", "t">>,
   <<"a">>, <<"1">>, <<"_">>, <<"$">>, <<"@">>, <<" ">>, <<";">>}

WordInputs ==
  {Flatten(ps) \o <<NUL>> : ps \in UNION {[1..k -> WordPieces] : k \in 0..MaxPieces}}
    \cup {<<"v", "i", "r", "t", "u", "a", "l", " ",
            "v", "i", "r", "t", "u", "a", "l", "l", "y", NUL>>}

InitWords == InitWith(WordInputs \cup CoverageInputs)

SpecWords == InitWords /\ [][Next]_vars

\* Inputs for numbers.
NumPieces ==
  {<<"0", "x">>, <<"1">>, <<"5">>, <<".">>, <<"p">>, <<"e">>, <<"E">>,
   <<"-">>, <<"+">>, <<"L">>}

Hex18p3 == <<"0", "x", "1", ".", "8", "p", "3", NUL>>

Dec15em10 == <<"1", ".", "5", "e", "-", "1", "0", NUL>>

OneMinusFive == <<"1", "-", "5", NUL>>

NumInputs ==
  {Flatten(ps) \o <<NUL>> : ps \in UNION {[1..k -> NumPieces] : k \in 0..MaxPieces}}
    \cup {Hex18p3, Dec15em10, OneMinusFive, <<"0", "x", "E", "+", "1", NUL>>}

InitNumbers == InitWith(NumInputs \cup CoverageInputs)

SpecNumbers == InitNumbers /\ [][Next]_vars

\* Inputs for the directives.
DirectivePieces ==
  {<<"#">>, <<" ">>, <<NL>>, <<"a">>, <<";">>, <<"l", "i", "n", "e">>,
   <<"e", "r", "r", "o", "r">>, <<"w", "a", "r", "n", "i", "n", "g">>,
   <<"i", "f">>, <<"i", "f", "d", "e", "f">>, <<"i", "f", "n", "d", "e", "f">>}

ErrorBoom ==
  <<"#", "e", "r", "r", "o", "r", " ", "b", "o", "o", "m", NL,
    "i", "n", "t", " ", "x", ";", NUL>>

DirectiveInputs ==
  {Flatten(ps) \o <<NUL>> :
     ps \in UNION {[1..k -> DirectivePieces] : k \in 0..MaxPieces}}
    \cup {ErrorBoom}

InitDirectives == InitWith(DirectiveInputs \cup CoverageInputs)

SpecDirectives == InitDirectives /\ [][Next]_vars

\* Inputs for the comments.
CommentPieces ==
  {<<"/">>, <<"*">>, <<"/", "/">>, <<"/", "*">>, <<"*", "/">>, <<" ">>, <<"a">>,
   <<NL>>, <<CR>>, <<BSL>>, <<BSL, NL>>}

CommentFold == <<"/", "/", " ", "a", BSL, NL, "b", NL, NUL>>

CommentInputs ==
  {Flatten(ps) \o <<NUL>> :
     ps \in UNION {[1..k -> CommentPieces] : k \in 0..MaxPieces}}
    \cup {CommentFold}

InitComments == InitWith(CommentInputs \cup CoverageInputs)

SpecComments == InitComments /\ [][Next]_vars

----------------------------------------------------------------------------
(* Error messages *)

\* What the message of each exception is put together from, besides its fixed
\* text: the remaining view pc, the character c, the filename, the line.
MessageParts(err) ==
  CASE err = "UnterminatedComment"    -> {"pc"}
    [] err = "InvalidIdentifier"      -> {"pc"}
    [] err = "InvalidNumber"          -> {"pc"}
    [] err = "UnterminatedChar"       -> {"pc"}
    [] err = "UnterminatedString"     -> {"pc"}
    [] err = "MisplacedBackslash"     -> {"file", "line"}
    [] err = "UnterminatedDirective"  -> {}
    [] err = "InvalidCharacter"       -> {"c", "file", "line"}
    [] err = "UnrecognizedCharacter"  -> {"file", "line"}
    [] OTHER                          -> {}

----------------------------------------------------------------------------
(* Properties *)

\* The text of a span of the buffer.
Text(ptr, len) == SubSeq(input, ptr + 1, ptr + len)

Lexeme(tok) == Text(tok.ptr, tok.len)

LeadingTrivia(tok) == Text(tok.prePtr, tok.preLen)

RECURSIVE Rebuild(_)
Rebuild(toks) ==
  IF toks = <<>> THEN <<>>
  ELSE LeadingTrivia(Head(toks)) \o Lexeme(Head(toks)) \o Rebuild(Tail(toks))

\* Where the lexeme of the token before output[i] ends.
PrevEnd(i) == IF i = 1 THEN 0 ELSE output[i - 1].ptr + output[i - 1].len

RECURSIVE Newlines(_)
Newlines(s) ==
  IF s = <<>> THEN 0
  ELSE (IF Head(s) = NL THEN 1 ELSE 0) + Newlines(Tail(s))

\* The front character of the remaining view, when there is one.
AtChar(c) == status = "running" /\ Size >= 1 /\ input[pc + 1] = c

\* C1: when tokenize returns, the leading trivia and lexemes of the tokens,
\* concatenated in output order, are the input up to and including the
\* sentinel, and each token's leading trivia is exactly the text between the
\* end of the previous token's lexeme and the start of its own.
C1_Coverage ==
  status = "returned" =>
    /\ Rebuild(output) = input
    /\ \A i \in 1..Len(output) :
         LeadingTrivia(output[i]) = Text(PrevEnd(i), output[i].ptr - PrevEnd(i))

\* C2: when tokenize returns, the output holds exactly one TK_EOF token, it is
\* the last element, and its lexeme is the single sentinel character.
C2_SingleEOF ==
  status = "returned" =>
    /\ Len(output) >= 1
    /\ output[Len(output)].type = "TK_EOF"
    /\ Lexeme(output[Len(output)]) = <<NUL>>
    /\ \A i \in 1..(Len(output) - 1) : output[i].type # "TK_EOF"

\* C3: every pass through the driver loop that neither returns nor fails
\* strictly advances the cursor.
C3_Progress ==
  [][(status = "running" /\ status' = "running") => pc' > pc]_vars

\* C4: every token in the output has a non-empty lexeme.
C4_NonEmptyLexeme == \A i \in 1..Len(output) : output[i].len > 0

\* C5: while the call has not failed, the line counter is 1 plus the number
\* of newline characters the cursor has passed.
C5_LineCount ==
  status # "failed" => line = 1 + Newlines(SubSeq(input, 1, pc))

\* C6: the line of every token is the 1-based line of its first character.
C6_TokenLine ==
  \A i \in 1..Len(output) :
    output[i].line = 1 + Newlines(SubSeq(input, 1, output[i].ptr))

\* The messages tokenize throws for malformed source.
LexicalErrors ==
  {"UnterminatedComment", "UnterminatedChar", "UnterminatedString",
   "InvalidIdentifier", "InvalidNumber", "MisplacedBackslash",
   "UnterminatedDirective", "InvalidCharacter", "UnrecognizedCharacter"}

\* C7: when tokenize fails with a lexical error, the caller's output sequence
\* holds no tokens.
C7_NoPartialResult ==
  (status = "failed" /\ error \in LexicalErrors) => output = <<>>

\* C8: a pass that starts at a string literal, a character literal or a block
\* comment and ends the call does so with the corresponding unterminated
\* error, and without having indexed past the sentinel.
C8_Unterminated ==
  [][/\ (status' = "failed" /\ AtChar(DQ)) => (error' = "UnterminatedString" /\ ~oob')
     /\ (status' = "failed" /\ AtChar(SQ)) => (error' = "UnterminatedChar" /\ ~oob')
     /\ (status' = "failed" /\ AtChar("/") /\ Size >= 2 /\ input[pc + 2] = "*")
          => (error' = "UnterminatedComment" /\ ~oob')]_vars

\* Offset of the first character after the '#' at the cursor and the spaces
\* and tabs that follow it.
RECURSIVE SkipBlanks(_)
SkipBlanks(p) ==
  IF p < Len(input) /\ input[p + 1] \in {" ", TAB} THEN SkipBlanks(p + 1) ELSE p

\* The cursor is at a #warning or #error directive that no newline follows.
AtOpenMessage ==
  /\ AtChar("#")
  /\ LET p1 == SkipBlanks(pc + 1)
     IN /\ \/ startsWith(p1, <<"w", "a", "r", "n", "i", "n", "g">>)
           \/ startsWith(p1, <<"e", "r", "r", "o", "r">>)
        /\ \A k \in (p1 + 1)..Len(input) : input[k] # NL

\* C9: a pass that starts at a #warning or #error directive with no newline
\* after it fails with the unterminated-directive-message error and appends
\* no token.
C9_OpenMessageFails ==
  [][AtOpenMessage =>
       (status' = "failed" /\ error' = "UnterminatedDirective" /\ output' = output)]_vars

\* C10: a pass that starts at a backslash that no newline character follows
\* fails with the misplaced-continuation error.
C10_MisplacedBackslash ==
  [][(AtChar(BSL) /\ input[pc + 2] # NL) =>
       (status' = "failed" /\ error' = "MisplacedBackslash")]_vars

\* C11: every error tokenize raises for malformed source carries the filename
\* and the current line number.
C11_ErrorHasFileAndLine ==
  (status = "failed" /\ error \in LexicalErrors) =>
    {"file", "line"} \subseteq MessageParts(error)

\* The operator spellings that start with c, each with its kind.
OperatorSpellings(c) ==
  IF c = "-"
  THEN {<<(<<"-">>), "TK_MINUS">>, <<(<<"-", "-">>), "TK_DECREMENT">>,
        <<(<<"-", "=">>), "TK_MINUS_ASSIGN">>, <<(<<"-", ">">>), "TK_ARROW">>,
        <<(<<"-", ">", "*">>), "TK_ARROW_STAR">>}
  ELSE IF c = "/"
  THEN {<<(<<"/">>), "TK_DIVIDE">>, <<(<<"/", "=">>), "TK_DIVIDE_ASSIGN">>}
  ELSE IF c = "."
  THEN {<<(<<".">>), "TK_DOT">>, <<(<<".", "*">>), "TK_DOT_STAR">>,
        <<(<<".", ".", ".">>), "TK_ELLIPSIS">>}
  ELSE UNION {{<<(<<r[1]>>), r[2]>>, <<(<<r[1], r[3]>>), r[4]>>,
               <<(<<r[1], r[5]>>), r[6]>>, <<(<<r[1], r[5], r[7]>>), r[8]>>} :
              r \in {row \in OneToThreeCharTokens : row[1] = c}}

\* The longest spelling of OperatorSpellings(c) that the remaining input
\* starts with.
LongestOperator(c) ==
  LET fits == {s \in OperatorSpellings(c) : startsWith(pc, s[1])}
  IN CHOOSE s \in fits : \A u \in fits : Len(u[1]) <= Len(s[1])

\* The cursor is at an operator that fixed-length dispatch handles.
AtOperator ==
  \/ AtChar("-")
  \/ AtChar("/") /\ input[pc + 2] \notin {"*", "/"}
  \/ AtChar(".") /\ ~isdigit(input[pc + 2])
  \/ \E c \in Firsts(OneToThreeCharTokens) : AtChar(c)

\* The pass appended exactly one token, of kind t and length len, that starts
\* at the old cursor, and moved the cursor to its end.
Emitted(t, len) ==
  /\ status' = "running"
  /\ Len(output') = Len(output) + 1
  /\ SubSeq(output', 1, Len(output)) = output
  /\ output'[Len(output')].type = t
  /\ output'[Len(output')].ptr = pc
  /\ output'[Len(output')].len = len
  /\ pc' = pc + len

\* C12: a pass that starts at '-', at '/' not followed by '*' or '/', at '.'
\* not followed by a digit, or at the first character of an entry of the
\* one-to-three-character table emits, as one token, the longest operator
\* spelling that the remaining input starts with.
C12_LongestOperator ==
  [][AtOperator =>
       Emitted(LongestOperator(input[pc + 1])[2],
               Len(LongestOperator(input[pc + 1])[1]))]_vars

\* C12 witness: "->*" came out as one arrow-star token and "<<=" as one token.
C12_Witness ==
  /\ \E i \in 1..Len(output) :
       output[i].type = "TK_ARROW_STAR" /\ Lexeme(output[i]) = <<"-", ">", "*">>
  /\ \E i \in 1..Len(output) :
       output[i].type = "TK_LSHIFT_ASSIGN" /\ Lexeme(output[i]) = <<"<", "<", "=">>

WordChars == Lower \cup Upper \cup Digits \cup {"_", "$", "@"}

\* Length of the maximal run of word characters that starts at offset p.
RECURSIVE RunLen(_)
RunLen(p) ==
  IF p < Len(input) /\ input[p + 1] \in WordChars THEN 1 + RunLen(p + 1) ELSE 0

\* The kind of the word w: its keyword kind if w is a key of the table.
WordKind(w) ==
  IF \E kw \in Keywords : kw[1] = w
  THEN (CHOOSE kw \in Keywords : kw[1] = w)[2]
  ELSE "TK_IDENTIFIER"

AtWord ==
  /\ status = "running"
  /\ Size >= 1
  /\ input[pc + 1] \in Lower \cup Upper \cup {"_", "$", "@"}

\* C13: a pass that starts at a letter, '_', '$' or '@' emits the maximal run
\* of alphanumeric, '_', '$' and '@' characters as one token, whose kind is the
\* keyword kind if the whole run is a key of the keyword table and
\* TK_IDENTIFIER otherwise.
C13_WordIsMaximalRun ==
  [][AtWord => Emitted(WordKind(Text(pc, RunLen(pc))), RunLen(pc))]_vars

\* C13 witness: "virtual virtually" gave the keyword, then one identifier.
C13_Witness ==
  /\ Len(output) >= 2
  /\ output[1].type = "TK_VIRTUAL"
  /\ Lexeme(output[1]) = <<"v", "i", "r", "t", "u", "a", "l">>
  /\ output[2].type = "TK_IDENTIFIER"
  /\ Lexeme(output[2]) = <<"v", "i", "r", "t", "u", "a", "l", "l", "y">>

\* The kinds and lexemes of the tokens appended so far.
Tokens == [i \in 1..Len(output) |-> <<output[i].type, Lexeme(output[i])>>]

\* The tokens expected of the three inputs of C14.
ExpectedTokens(in) ==
  IF in = Hex18p3
  THEN <<(<<"TK_NUMBER", (<<"0", "x", "1", ".", "8", "p", "3">>)>>),
         (<<"TK_EOF", (<<NUL>>)>>)>>
  ELSE IF in = Dec15em10
  THEN <<(<<"TK_NUMBER", (<<"1", ".", "5", "e", "-", "1", "0">>)>>),
         (<<"TK_EOF", (<<NUL>>)>>)>>
  ELSE <<(<<"TK_NUMBER", (<<"1">>)>>), (<<"TK_MINUS", (<<"-">>)>>),
         (<<"TK_NUMBER", (<<"5">>)>>), (<<"TK_EOF", (<<NUL>>)>>)>>

\* C14: "0x1.8p3" and "1.5e-10" each come out as one TK_NUMBER token (and the
\* end of input), "1-5" as number 1, minus, number 5: the call does not fail,
\* the tokens appended so far are the first of the expected ones, and all of
\* them once the call has returned.
C14_NumberExamples ==
  input \in {Hex18p3, Dec15em10, OneMinusFive} =>
    /\ status # "failed"
    /\ Len(Tokens) <= Len(ExpectedTokens(input))
    /\ Tokens = SubSeq(ExpectedTokens(input), 1, Len(Tokens))
    /\ status = "returned" => Tokens = ExpectedTokens(input)

\* C14 witness: the call on "1.5e-10" has returned one number and the end.
C14_Witness ==
  /\ input = Dec15em10
  /\ status = "returned"
  /\ Len(output) = 2
  /\ output[1].type = "TK_NUMBER"
  /\ output[1].len = 7

\* Offset of the first newline at or after offset p (there is one).
RECURSIVE FirstNewline(_)
FirstNewline(p) == IF input[p + 1] = NL THEN p ELSE FirstNewline(p + 1)

\* The cursor is at a #line, #warning or #error directive that a newline
\* follows; kw is the keyword.
AtClosedDirective(kw) ==
  /\ AtChar("#")
  /\ startsWith(SkipBlanks(pc + 1), kw)
  /\ \E k \in (pc + 1)..Len(input) : input[k] = NL

\* The tokens expected of '#error boom', newline, 'int x;'.
ErrorBoomTokens ==
  <<(<<"TK_ERROR", (<<"#", "e", "r", "r", "o", "r", " ", "b", "o", "o", "m">>)>>),
    (<<"TK_INT", (<<"i", "n", "t">>)>>), (<<"TK_IDENTIFIER", (<<"x">>)>>),
    (<<"TK_SEMICOLON", (<<";">>)>>), (<<"TK_EOF", (<<NUL>>)>>)>>

\* C15: a pass that starts at a #line, #warning or #error directive that a
\* newline follows emits one token that runs from the '#' up to, but not
\* including, that newline; and '#error boom', newline, 'int x;' gives the
\* error-kind token '#error boom', then int, x and ';'.
C15_DirectiveLine ==
  /\ [][/\ AtClosedDirective(<<"l", "i", "n", "e">>)
             => Emitted("TK_HASHLINE", FirstNewline(pc) - pc)
        /\ (\/ AtClosedDirective(<<"w", "a", "r", "n", "i", "n", "g">>)
            \/ AtClosedDirective(<<"e", "r", "r", "o", "r">>))
             => Emitted("TK_ERROR", FirstNewline(pc) - pc)]_vars
  /\ [](input = ErrorBoom =>
          /\ status # "failed"
          /\ Len(Tokens) <= Len(ErrorBoomTokens)
          /\ Tokens = SubSeq(ErrorBoomTokens, 1, Len(Tokens))
          /\ status = "returned" => Tokens = ErrorBoomTokens)

\* C15 witness: the call on '#error boom', newline, 'int x;' has returned
\* its five tokens.
C15_Witness ==
  /\ input = ErrorBoom
  /\ status = "returned"
  /\ Len(output) = 5
  /\ output[1].type = "TK_ERROR"
  /\ output[1].len = 11
  /\ output[2].type = "TK_INT"

\* The cursor is at the start of a block comment or of a line comment.
AtComment(second) == AtChar("/") /\ input[pc + 2] = second

\* Offset at which the line comment that covers offset p - 1 ends: after the
\* first newline that no backslash precedes, or on the sentinel.
RECURSIVE LineCommentEnd(_)
LineCommentEnd(p) ==
  IF input[p + 1] = NUL THEN p
  ELSE IF input[p + 1] = NL /\ input[p] # BSL THEN p + 1
  ELSE LineCommentEnd(p + 1)

\* C16: a pass that starts at a comment appends no token; unless it fails, it
\* only moves the cursor, lengthens the pending trivia by as much and adds
\* to the line counter the number of newlines it moved over; a line comment
\* ends after the first newline that no backslash immediately precedes, so
\* '// a', backslash, newline, 'b', newline is one comment that adds 2.
C16_CommentsAreTrivia ==
  [][/\ (AtComment("*") \/ AtComment("/")) =>
          /\ output' = output
          /\ status' = "running" =>
               /\ pc' > pc
               /\ preTokenPtr' = preTokenPtr
               /\ preTokenLen' = preTokenLen + (pc' - pc)
               /\ line' = line + Newlines(SubSeq(input, pc + 1, pc'))
     /\ AtComment("/") => (status' = "running" /\ pc' = LineCommentEnd(pc + 2))
     /\ (AtComment("/") /\ input = CommentFold /\ pc = 0) =>
          (pc' = 8 /\ line' = line + 2)]_vars

\* C16 witness: the comment of CommentFold has been eaten in one pass.
C16_Witness ==
  /\ input = CommentFold
  /\ pc = 8
  /\ line = 3
  /\ preTokenLen = 8
  /\ output = <<>>

\* The lexeme starts with the 0x or 0X prefix.
IsHexNumber(lex) == Len(lex) >= 2 /\ lex[1] = "0" /\ lex[2] \in {"x", "X"}

\* The character before the sign at index k of lex is an exponent marker:
\* e or E of a decimal number, p or P of a hex number.
AfterExponentMarker(lex, k) ==
  IF IsHexNumber(lex) THEN lex[k - 1] \in {"p", "P"} ELSE lex[k - 1] \in {"e", "E"}

\* C17: inside the lexeme of a number token, every '+' or '-' after the
\* first character stands right after an exponent marker (e/E of a decimal
\* number, p/P of a 0x number); a sign anywhere else, also after the hex
\* digit E or e, is not part of the number.
C17_SignAfterExponent ==
  \A i \in 1..Len(output) :
    output[i].type = "TK_NUMBER" =>
      \A k \in 2..output[i].len :
        Lexeme(output[i])[k] \in {"+", "-"} => AfterExponentMarker(Lexeme(output[i]), k)

\* The spellings looked for after a '#' and its blanks, in order, each with
\* the kind of its token.
PoundSpellings ==
  <<(<<(<<"i", "n", "c", "l", "u", "d", "e">>), "TK_INCLUDE">>),
    (<<(<<"i", "f", "d", "e", "f">>), "TK_IFDEF">>),
    (<<(<<"i", "f", "n", "d", "e", "f">>), "TK_IFNDEF">>),
    (<<(<<"i", "f">>), "TK_POUNDIF">>),
    (<<(<<"u", "n", "d", "e", "f">>), "TK_UNDEF">>),
    (<<(<<"e", "l", "s", "e">>), "TK_POUNDELSE">>),
    (<<(<<"e", "n", "d", "i", "f">>), "TK_ENDIF">>),
    (<<(<<"d", "e", "f", "i", "n", "e">>), "TK_DEFINE">>),
    (<<(<<"p", "r", "a", "g", "m", "a">>), "TK_PRAGMA">>),
    (<<(<<"#">>), "TK_DOUBLEPOUND">>)>>

\* The first of PoundSpellings that the text at offset p1 starts with, or the
\* generic pound with nothing matched.
FirstPoundSpelling(p1) ==
  LET hits == {k \in 1..Len(PoundSpellings) : startsWith(p1, PoundSpellings[k][1])}
  IN IF hits = {} THEN <<(<<>>), "TK_POUND">>
     ELSE PoundSpellings[CHOOSE k \in hits : \A j \in hits : k <= j]

\* The cursor is at a '#' that starts none of #line, #warning, #error.
AtPlainPound ==
  /\ AtChar("#")
  /\ LET p1 == SkipBlanks(pc + 1)
     IN /\ ~startsWith(p1, <<"l", "i", "n", "e">>)
        /\ ~startsWith(p1, <<"w", "a", "r", "n", "i", "n", "g">>)
        /\ ~startsWith(p1, <<"e", "r", "r", "o", "r">>)

\* C18: a pass that starts at a '#' that starts none of #line, #warning,
\* #error appends one token: its kind is that of the first spelling, in the
\* order include, ifdef, ifndef, if, undef, else, endif, define, pragma, '#',
\* that the text after the blanks starts with, else the generic pound; its
\* lexeme is the '#', the blanks and the matched spelling and nothing more.
C18_PoundLexeme ==
  [][AtPlainPound =>
       LET p1 == SkipBlanks(pc + 1)
           m == FirstPoundSpelling(p1)
       IN Emitted(m[2], (p1 - pc) + Len(m[1]))]_vars

\* Offset of the sentinel that ends the input.
Sentinel == Len(input) - 1

\* C19: the cursor never passes the end of the input, and while the driver
\* is about to read the front character the cursor is at or before the
\* sentinel (the view is not empty); no token other than TK_EOF and no
\* leading trivia reaches over the sentinel.
C19_SentinelOnlyAsEOF ==
  /\ pc <= Len(input)
  /\ status = "running" => pc <= Sentinel
  /\ status = "running" => preTokenPtr + preTokenLen <= Sentinel
  /\ \A i \in 1..Len(output) :
       /\ output[i].prePtr + output[i].preLen <= Sentinel
       /\ output[i].type # "TK_EOF" => output[i].ptr + output[i].len <= Sentinel

====
